---- MODULE Spec2Model ----
(***************************************************************************)
(* Model of sft-trainer-alpaca.py: the train() pipeline (parameter         *)
(* printout, assertion, model / tokenizer load, LoRA attachment, dataset   *)
(* load, checkpoint resume, per-example prompt templating + label masking, *)
(* delegated training, final save) and the pure tokenize /                 *)
(* generate_and_tokenize_prompt functions.                                 *)
(*                                                                         *)
(* Text is a sequence of token ids (a prefix-stable tokenizer: the tokens  *)
(* of a string's prefix are a prefix of the string's tokens).  Adapter     *)
(* weights are abstracted to one natural number; a saved state dict is a   *)
(* sequence that is empty for {} and <<w>> for adapter weights w.          *)
(***************************************************************************)
EXTENDS Integers, Sequences, FiniteSets, TLC

\* ------------------------------------------------------------------ bounds
MaxField == 1      \* longest instruction / input text, in tokens
MaxOutput == 2     \* longest output text, in tokens
MaxCutoff == 9     \* largest cutoff_len tried
MaxData == 2       \* largest dataset, in examples
MaxWeight == 2     \* number of distinct trained adapter weight values
MaxRuns == 2       \* invocations of train() on the same file system

\* --------------------------------------------------------------- constants
BOS == 1           \* tokenizer.bos_token_id
EOS == 2           \* tokenizer.eos_token_id
IGNORE == -100     \* label value ignored by the loss
TInstruction == 10 \* "Below is an instruction ... ### Instruction:\n"
TInput == 11       \* "\n\n### Input:\n"
TResponse == 12    \* "\n\n### Response:\n"
Word == 20         \* an ordinary text token
FreshWeights == 0  \* adapter weights right after get_peft_model

PyNone == "None"
PyFalse == "False"
EmptyStr == ""
Dirs == {"d1", "d2"}
AdapterBin == "adapter_model.bin"
PytorchBin == "pytorch_model.bin"
TokenizerFile == "tokenizer.json"
FileNames == {AdapterBin, PytorchBin, TokenizerFile}

VARIABLES
    pc,                      \* position of train() in its body
    run,                     \* number of invocations so far
    base_model, output_dir, resume_param, val_set_size,
    train_on_inputs, add_eos_token, cutoff_len, local_rank,
    resume_from_checkpoint,  \* the local variable, rewritten at line 240
    adapter,                 \* adapter weights of the in-memory model
    data,                    \* the loaded dataset: a sequence of data points
    val_set,                 \* indices that train_test_split put in "test"
    tokenized,               \* index -> tokenized example, for mapped indices
    trainer_arg,             \* value passed to trainer.train
    fs,                      \* directory -> file name -> file
    log                      \* the external calls made by this run, in order

vars == <<pc, run, base_model, output_dir, resume_param, val_set_size,
          train_on_inputs, add_eos_token, cutoff_len, local_rank,
          resume_from_checkpoint, adapter, data, val_set, tokenized,
          trainer_arg, fs, log>>

params == <<base_model, output_dir, resume_param, val_set_size,
            train_on_inputs, add_eos_token, cutoff_len, local_rank>>

\* ------------------------------------------------------------ python lists
Min(a, b) == IF a < b THEN a ELSE b

Max(a, b) == IF a < b THEN b ELSE a

\* [x] * n ; a non-positive n gives the empty list
PyRepeat(x, n) == [i \in 1..Max(n, 0) |-> x]

\* s[n:] ; a negative n counts from the end
PySliceFrom(s, n) ==
    LET start == IF n >= 0 THEN Min(n, Len(s)) ELSE Max(Len(s) + n, 0)
    IN  SubSeq(s, start + 1, Len(s))

\* ------------------------------------------------------------ tokenization
\* tokenizer(prompt, truncation=True, max_length=cutoff, padding=False)
tokenizer(prompt, cutoff) ==
    LET ids == SubSeq(<<BOS>> \o prompt, 1, Min(cutoff, Len(prompt) + 1))
    IN  [input_ids |-> ids, attention_mask |-> [i \in 1..Len(ids) |-> 1]]

tokenize(prompt, eos_flag, cutoff) ==
    LET result == tokenizer(prompt, cutoff)
        n == Len(result.input_ids)
        append == /\ result.input_ids[n] # EOS
                  /\ n < cutoff
                  /\ eos_flag
        ids == IF append THEN Append(result.input_ids, EOS)
               ELSE result.input_ids
        mask == IF append THEN Append(result.attention_mask, 1)
                ELSE result.attention_mask
    IN  [input_ids |-> ids, attention_mask |-> mask, labels |-> ids]

user_prompt(dp) ==
    <<TInstruction>> \o dp.instruction \o <<TInput>> \o dp.input
        \o <<TResponse>>

full_prompt(dp) == user_prompt(dp) \o dp.output

generate_and_tokenize_prompt_unsliced(dp, toi, eos_flag, cutoff) ==
    LET tokenized_full_prompt == tokenize(full_prompt(dp), TRUE, cutoff)
        tokenized_user_prompt == tokenize(user_prompt(dp), eos_flag, cutoff)
        len0 == Len(tokenized_user_prompt.input_ids)
        user_prompt_len == IF eos_flag THEN len0 - 1 ELSE len0
    IN  IF ~toi
        THEN [tokenized_full_prompt EXCEPT !.labels =
                 PyRepeat(IGNORE, user_prompt_len)
                     \o tokenized_full_prompt.labels]
        ELSE tokenized_full_prompt

generate_and_tokenize_prompt(dp, toi, eos_flag, cutoff) ==
    LET tokenized_full_prompt == tokenize(full_prompt(dp), TRUE, cutoff)
        tokenized_user_prompt == tokenize(user_prompt(dp), eos_flag, cutoff)
        len0 == Len(tokenized_user_prompt.input_ids)
        user_prompt_len == IF eos_flag THEN len0 - 1 ELSE len0
    IN  IF ~toi
        THEN [tokenized_full_prompt EXCEPT !.labels =
                 PyRepeat(IGNORE, user_prompt_len)
                     \o PySliceFrom(tokenized_full_prompt.labels,
                                    user_prompt_len)]
        ELSE tokenized_full_prompt

\* ------------------------------------------------------------------ inputs
SeqsUpTo(S, n) == UNION {[1..k -> S] : k \in 0..n}

Texts(n) == SeqsUpTo({EOS, Word}, n)

DataPoints ==
    [instruction : Texts(MaxField), input : Texts(MaxField),
     output : Texts(MaxOutput)]

\* the i-th record of the dataset file used by the pipeline runs
SamplePoint(i) ==
    [instruction |-> <<Word>>,
     input |-> IF i % 2 = 0 THEN <<Word>> ELSE <<>>,
     output |-> [k \in 1..Min(i, MaxOutput) |-> Word]]

Datasets == {[i \in 1..n |-> SamplePoint(i)] : n \in 1..MaxData}

PipelineCutoffs == {5, MaxCutoff}

\* ------------------------------------------------------------- file system
NoFile == [exists |-> FALSE, dict |-> <<>>]

File(d) == [exists |-> TRUE, dict |-> d]

EmptyDir == [f \in FileNames |-> NoFile]

Exists(dir, name) == fs[dir][name].exists

\* checkpoint directories another run may have left behind
PriorCheckpoints ==
    {EmptyDir,
     [EmptyDir EXCEPT ![AdapterBin] = File(<<1>>)],
     [EmptyDir EXCEPT ![PytorchBin] = File(<<1>>)],
     [EmptyDir EXCEPT ![AdapterBin] = File(<<1>>),
                      ![PytorchBin] = File(<<1>>)]}

\* set_peft_model_state_dict(model, adapters_weights): keys absent from the
\* state dict leave the model's weights as they are
set_peft_model_state_dict(w, dict) == IF dict = <<>> THEN w ELSE dict[1]

\* -------------------------------------------------------------------- init
Idle ==
    /\ base_model = EmptyStr
    /\ output_dir = "d1"
    /\ resume_param = PyNone
    /\ val_set_size = 0
    /\ train_on_inputs = FALSE
    /\ add_eos_token = FALSE
    /\ cutoff_len = MaxCutoff
    /\ local_rank = 0
    /\ resume_from_checkpoint = PyNone
    /\ adapter = FreshWeights
    /\ data = <<>>
    /\ val_set = {}
    /\ tokenized = <<>>
    /\ trainer_arg = PyNone
    /\ log = <<>>

Init ==
    /\ pc = "idle"
    /\ run = 0
    /\ Idle
    /\ \E prior \in PriorCheckpoints :
          fs = [d \in Dirs |-> IF d = "d1" THEN prior ELSE EmptyDir]

\* ----------------------------------------------------------------- actions
\* fire.Fire(train): a new invocation with its arguments
Invoke ==
    /\ pc \in {"idle", "done", "failed"}
    /\ run < MaxRuns
    /\ run' = run + 1
    /\ pc' = "print"
    /\ base_model' \in {EmptyStr, "m"}
    /\ output_dir' \in Dirs
    /\ resume_param' \in {PyNone} \cup Dirs
    /\ val_set_size' \in {0, 1}
    /\ train_on_inputs' \in BOOLEAN
    /\ add_eos_token' \in BOOLEAN
    /\ cutoff_len' \in PipelineCutoffs
    /\ local_rank' \in {0, 1}
    /\ resume_from_checkpoint' = resume_param'
    /\ adapter' = FreshWeights
    /\ data' = <<>>
    /\ val_set' = {}
    /\ tokenized' = <<>>
    /\ trainer_arg' = PyNone
    /\ log' = <<>>
    /\ UNCHANGED fs

PrintParams ==
    /\ pc = "print"
    /\ log' = IF local_rank = 0 THEN Append(log, "print_params") ELSE log
    /\ pc' = "assert"
    /\ UNCHANGED <<run, params, resume_from_checkpoint, adapter, data,
                   val_set, tokenized, trainer_arg, fs>>

AssertBaseModel_skipped ==
    /\ pc = "assert"
    /\ pc' = "load_model"
    /\ UNCHANGED <<run, params, resume_from_checkpoint, adapter, data,
                   val_set, tokenized, trainer_arg, fs, log>>

AssertBaseModel ==
    /\ pc = "assert"
    /\ pc' = IF base_model = EmptyStr THEN "failed" ELSE "load_model"
    /\ UNCHANGED <<run, params, resume_from_checkpoint, adapter, data,
                   val_set, tokenized, trainer_arg, fs, log>>

LoadModel ==
    /\ pc = "load_model"
    /\ log' = Append(log, "load_model")
    /\ pc' = "load_tokenizer"
    /\ UNCHANGED <<run, params, resume_from_checkpoint, adapter, data,
                   val_set, tokenized, trainer_arg, fs>>

LoadTokenizer ==
    /\ pc = "load_tokenizer"
    /\ log' = Append(log, "load_tokenizer")
    /\ pc' = "attach_adapter"
    /\ UNCHANGED <<run, params, resume_from_checkpoint, adapter, data,
                   val_set, tokenized, trainer_arg, fs>>

AttachAdapter ==
    /\ pc = "attach_adapter"
    /\ adapter' = FreshWeights
    /\ log' = Append(log, "attach_adapter")
    /\ pc' = "load_dataset"
    /\ UNCHANGED <<run, params, resume_from_checkpoint, data, val_set,
                   tokenized, trainer_arg, fs>>

LoadDataset ==
    /\ pc = "load_dataset"
    /\ data' \in {d \in Datasets : Len(d) > val_set_size}
    /\ log' = Append(log, "load_dataset")
    /\ pc' = "resume"
    /\ UNCHANGED <<run, params, resume_from_checkpoint, adapter, val_set,
                   tokenized, trainer_arg, fs>>

ResumeCheckpoint_keepdir ==
    /\ pc = "resume"
    /\ IF resume_from_checkpoint # PyNone
       THEN LET dir == resume_from_checkpoint
                full == Exists(dir, PytorchBin)
                checkpoint_name == IF full THEN PytorchBin ELSE AdapterBin
            IN  /\ resume_from_checkpoint' = resume_from_checkpoint
                /\ IF Exists(dir, checkpoint_name)
                   THEN /\ adapter' = set_peft_model_state_dict(
                                          adapter, fs[dir][checkpoint_name].dict)
                        /\ log' = Append(log, "read_checkpoint")
                   ELSE UNCHANGED <<adapter, log>>
       ELSE UNCHANGED <<resume_from_checkpoint, adapter, log>>
    /\ pc' = "split"
    /\ UNCHANGED <<run, params, data, val_set, tokenized, trainer_arg, fs>>

ResumeCheckpoint ==
    /\ pc = "resume"
    /\ IF resume_from_checkpoint # PyNone
       THEN LET dir == resume_from_checkpoint
                full == Exists(dir, PytorchBin)
                checkpoint_name == IF full THEN PytorchBin ELSE AdapterBin
            IN  /\ resume_from_checkpoint' =
                       IF full THEN resume_from_checkpoint ELSE PyFalse
                /\ IF Exists(dir, checkpoint_name)
                   THEN /\ adapter' = set_peft_model_state_dict(
                                          adapter, fs[dir][checkpoint_name].dict)
                        /\ log' = Append(log, "read_checkpoint")
                   ELSE UNCHANGED <<adapter, log>>
       ELSE UNCHANGED <<resume_from_checkpoint, adapter, log>>
    /\ pc' = "split"
    /\ UNCHANGED <<run, params, data, val_set, tokenized, trainer_arg, fs>>

\* train_test_split(test_size=val_set_size, shuffle=True, seed=42), or the
\* whole dataset as train data
SplitDataset ==
    /\ pc = "split"
    /\ val_set' \in {S \in SUBSET (1..Len(data)) :
                        Cardinality(S) = val_set_size}
    /\ pc' = "map"
    /\ UNCHANGED <<run, params, resume_from_checkpoint, adapter, data,
                   tokenized, trainer_arg, fs, log>>

\* one step of .shuffle().map(generate_and_tokenize_prompt)
TokenizeExample ==
    /\ pc = "map"
    /\ \E i \in (1..Len(data)) \ DOMAIN tokenized :
          /\ tokenized' = (i :> generate_and_tokenize_prompt(
                                    data[i], train_on_inputs, add_eos_token,
                                    cutoff_len)) @@ tokenized
          /\ pc' = IF DOMAIN tokenized' = 1..Len(data) THEN "train"
                   ELSE "map"
    /\ log' = Append(log, "tokenize")
    /\ UNCHANGED <<run, params, resume_from_checkpoint, adapter, data,
                   val_set, trainer_arg, fs>>

TrainerTrain ==
    /\ pc = "train"
    /\ trainer_arg' = resume_from_checkpoint
    /\ adapter' \in 1..MaxWeight
    /\ log' = Append(log, "trainer_train")
    /\ pc' = "save_adapter"
    /\ UNCHANGED <<run, params, resume_from_checkpoint, data, val_set,
                   tokenized, fs>>

SaveAdapter_only ==
    /\ pc = "save_adapter"
    /\ fs' = [fs EXCEPT ![output_dir][AdapterBin] = File(<<adapter>>)]
    /\ log' = Append(log, "save_adapter")
    /\ pc' = "save_tokenizer"
    /\ UNCHANGED <<run, params, resume_from_checkpoint, adapter, data,
                   val_set, tokenized, trainer_arg>>

\* model.save_pretrained(output_dir)
SaveAdapter ==
    /\ pc = "save_adapter"
    /\ fs' = [fs EXCEPT ![output_dir][AdapterBin] = File(<<adapter>>)]
    /\ log' = Append(log, "save_adapter")
    /\ pc' = "save_pytorch_model"
    /\ UNCHANGED <<run, params, resume_from_checkpoint, adapter, data,
                   val_set, tokenized, trainer_arg>>

\* torch.save({}, output_dir/pytorch_model.bin)
SavePytorchModel ==
    /\ pc = "save_pytorch_model"
    /\ fs' = [fs EXCEPT ![output_dir][PytorchBin] = File(<<>>)]
    /\ log' = Append(log, "save_pytorch_model")
    /\ pc' = "save_tokenizer"
    /\ UNCHANGED <<run, params, resume_from_checkpoint, adapter, data,
                   val_set, tokenized, trainer_arg>>

\* tokenizer.save_pretrained(output_dir)
SaveTokenizer ==
    /\ pc = "save_tokenizer"
    /\ fs' = [fs EXCEPT ![output_dir][TokenizerFile] = File(<<>>)]
    /\ log' = Append(log, "save_tokenizer")
    /\ pc' = "done"
    /\ UNCHANGED <<run, params, resume_from_checkpoint, adapter, data,
                   val_set, tokenized, trainer_arg>>

Next ==
    \/ Invoke
    \/ PrintParams
    \/ AssertBaseModel
    \/ LoadModel
    \/ LoadTokenizer
    \/ AttachAdapter
    \/ LoadDataset
    \/ ResumeCheckpoint
    \/ SplitDataset
    \/ TokenizeExample
    \/ TrainerTrain
    \/ SaveAdapter
    \/ SavePytorchModel
    \/ SaveTokenizer

Spec == Init /\ [][Next]_vars

\* ---------------------------------------- the tokenization function alone
\* train() stands at the map over a one-example dataset; the example and the
\* three parameters that reach generate_and_tokenize_prompt range over all
\* bounded values.
InitTok ==
    /\ pc = "map"
    /\ run = 1
    /\ base_model = "m"
    /\ output_dir = "d1"
    /\ resume_param = PyNone
    /\ val_set_size = 0
    /\ train_on_inputs \in BOOLEAN
    /\ add_eos_token \in BOOLEAN
    /\ cutoff_len \in 1..MaxCutoff
    /\ local_rank = 0
    /\ resume_from_checkpoint = PyNone
    /\ adapter = FreshWeights
    /\ data \in {<<dp>> : dp \in DataPoints}
    /\ val_set = {}
    /\ tokenized = <<>>
    /\ trainer_arg = PyNone
    /\ fs = [d \in Dirs |-> EmptyDir]
    /\ log = <<"print_params", "load_model", "load_tokenizer",
               "attach_adapter", "load_dataset">>

NextTok == TokenizeExample

SpecTok == InitTok /\ [][NextTok]_vars

\* ------------------------------------------------------------------ claims
Examples == {tokenized[i] : i \in DOMAIN tokenized}

\* C1: every example returned by generate_and_tokenize_prompt has as many
\* labels, and as many attention-mask entries, as input ids, whatever
\* train_on_inputs, add_eos_token and cutoff_len are.
C1_LabelLength ==
    \A ex \in Examples :
        /\ Len(ex.labels) = Len(ex.input_ids)
        /\ Len(ex.attention_mask) = Len(ex.input_ids)

\* an example whose labels were rewritten into a masked prefix and a kept
\* suffix, with the input cut at cutoff_len
C1_Witness ==
    \E ex \in Examples :
        /\ ~train_on_inputs
        /\ add_eos_token
        /\ Len(ex.input_ids) = cutoff_len
        /\ ex.labels[1] = IGNORE
        /\ ex.labels[Len(ex.labels)] # IGNORE
        /\ Len(ex.labels) = Len(ex.input_ids)

\* number of tokens of the user prompt (BOS included)
PromptTokens(dp) == Len(user_prompt(dp)) + 1

\* C2: with train_on_inputs false, every label position inside the prompt
\* portion is IGNORE and every later label equals the input id at that
\* position, for both values of add_eos_token and also when the user prompt
\* reaches cutoff_len.
C2_PromptMasked ==
    \A i \in DOMAIN tokenized :
        ~train_on_inputs =>
            \A k \in 1..Len(tokenized[i].labels) :
                tokenized[i].labels[k] =
                    IF k <= PromptTokens(data[i]) THEN IGNORE
                    ELSE tokenized[i].input_ids[k]

\* C3: with an empty base_model the run stops at the assertion: nothing but
\* the parameter printout has happened, and nothing else ever happens.
C3_AssertFirst ==
    (run > 0 /\ base_model = EmptyStr) =>
        /\ pc \in {"print", "assert", "failed"}
        /\ \A k \in 1..Len(log) : log[k] = "print_params"
        /\ data = <<>>
        /\ tokenized = <<>>
        /\ trainer_arg = PyNone

C3_Witness ==
    /\ pc = "failed"
    /\ base_model = EmptyStr
    /\ log = <<"print_params">>

Loaded == \E k \in 1..Len(log) : log[k] = "read_checkpoint"

\* C4: when resume_from_checkpoint names a directory, trainer.train gets
\* that directory exactly when it holds pytorch_model.bin, and False
\* otherwise; with neither file no weights are loaded and the run goes on
\* (the assertion on base_model is the only failure).
C4_TrainerArg ==
    /\ (pc = "save_adapter" /\ resume_param \in Dirs) =>
          /\ trainer_arg = resume_param <=> Exists(resume_param, PytorchBin)
          /\ ~Exists(resume_param, PytorchBin) => trainer_arg = PyFalse
          /\ (~Exists(resume_param, PytorchBin)
                /\ ~Exists(resume_param, AdapterBin)) => ~Loaded
    /\ pc = "failed" => base_model = EmptyStr

\* trainer.train has been called for a directory holding neither file
C4_Witness ==
    /\ pc = "save_adapter"
    /\ resume_param \in Dirs
    /\ ~Exists(resume_param, PytorchBin)
    /\ ~Exists(resume_param, AdapterBin)
    /\ trainer_arg = PyFalse
    /\ ~Loaded

IsStage(e) == e \notin {"print_params", "read_checkpoint"}

Stages(l) == SelectSeq(l, IsStage)

ExpectedStages ==
    <<"load_model", "load_tokenizer", "attach_adapter", "load_dataset">>
        \o [i \in 1..Len(data) |-> "tokenize"]
        \o <<"trainer_train", "save_adapter", "save_pytorch_model",
             "save_tokenizer">>

IsPrefix(s, t) == Len(s) <= Len(t) /\ s = SubSeq(t, 1, Len(s))

\* C5: the stages of a run happen once each and in the order model load,
\* tokenizer load, adapter attachment, dataset load, tokenization of each
\* example, trainer.train, save of adapter, pytorch_model.bin and tokenizer;
\* a run that returns has executed all of them.
C5_StageOrder ==
    /\ IsPrefix(Stages(log), ExpectedStages)
    /\ pc = "done" => Stages(log) = ExpectedStages

\* a run with a validation split has returned
C5_Witness ==
    /\ pc = "done"
    /\ Len(data) = MaxData
    /\ val_set # {}
    /\ Exists(output_dir, TokenizerFile)

\* C6: in a checkpoint directory pytorch_model.bin and adapter_model.bin
\* hold the same adapter weights, the output directory of this script's own
\* final save included, so resuming from a directory restores the adapter
\* weights saved there.
C6_SameWeights ==
    /\ pc # "save_pytorch_model" =>
          \A d \in Dirs :
              (Exists(d, PytorchBin) /\ Exists(d, AdapterBin)) =>
                  fs[d][PytorchBin].dict = fs[d][AdapterBin].dict
    /\ (pc = "split" /\ resume_param \in Dirs
           /\ Exists(resume_param, AdapterBin)) =>
          adapter = fs[resume_param][AdapterBin].dict[1]

====
